---- MODULE Spec2Model ----
(***************************************************************************)
(* Generic CRUD resource framework of play-api: the base-resource metadata *)
(* contract (package meta), the user resource (package apiv1), the generic *)
(* DAO and the two route sets, Router.Register and RegisterResource        *)
(* (package internal), over one table of a relational store reached        *)
(* through GORM.                                                           *)
(*                                                                         *)
(* A resource value is a record with the fields of the Go struct that the  *)
(* claims read: kind, apiVersion (TypeMeta); id, uid, resourceVersion,     *)
(* phase (ObjectMeta and Status.Phase); username, email, password,         *)
(* isActive (domain fields).  Timestamps, labels, annotations, fullName    *)
(* and the message/reason of the status are left out.                      *)
(* A JSON request body is a function from the names of the fields it       *)
(* carries to their values, so that decoding over a zero value and         *)
(* decoding over a loaded row differ as they do in encoding/json.          *)
(***************************************************************************)
EXTENDS Integers, Sequences, FiniteSets, TLC

VARIABLES
    rtype,      \* the resource type T the DAO and the routes are instantiated with
    api,        \* what the program exposes: the DAO itself or one of the two route sets
    store,      \* the table: a function from the ids of the rows to the rows
    nextId,     \* the next value of the table's AUTOINCREMENT primary key
    nextUid,    \* how many uuids have been drawn and persisted
    last,       \* the last call or request handled, with its answer
    workers,    \* the requests that are handled concurrently, by worker
    object      \* a resource value held in memory, on which the accessors are called

vars == <<rtype, api, store, nextId, nextUid, last, workers, object>>

\* no resource value is held
NoObject == [c \in {} |-> ""]

\* no request is handled concurrently
NoWorkers == [w \in {} |-> 0]

(***************************************************************************)
(* Bounds of the model.                                                    *)
(***************************************************************************)
\* AUTOINCREMENT stops handing out ids above MaxId, and uuid.New() is drawn MaxId times
MaxId == 2
\* no update is taken that would push a resourceVersion above MaxVersion
MaxVersion == 3

Max(a, b) == IF a >= b THEN a ELSE b
Min(a, b) == IF a <= b THEN a ELSE b

(***************************************************************************)
(* Resource types.  "User" is apiv1.User; "Resource" is a type that embeds  *)
(* meta.BaseResource next to one domain field (held in username) and       *)
(* overrides nothing, so the base hooks and the base Validate are its own. *)
(***************************************************************************)
ResourceTypes == {"User", "Resource"}

(***************************************************************************)
(* What a program built on the framework exposes over its table: the DAO   *)
(* called directly (as the DAO tests do), the routes of Router.Register    *)
(* (as the router and server tests do) or those of RegisterResource (as    *)
(* main does).                                                             *)
(***************************************************************************)
Apis == {"DAO", "Router", "Resource"}

\* the zero value of T (var resource T)
ZeroT ==
    [kind |-> "", apiVersion |-> "", id |-> 0, uid |-> "",
     resourceVersion |-> 0, phase |-> "",
     username |-> "", email |-> "", password |-> "", isActive |-> FALSE]

Columns == DOMAIN ZeroT

(***************************************************************************)
(* Errors, by their messages.                                              *)
(***************************************************************************)
Nil == "nil"
ErrRecordNotFound == "record not found"
ErrKindRequired == "kind is required"
ErrAPIVersionRequired == "apiVersion is required"
ErrUsernameRequired == "username is required"
ErrUsernameShort == "username must be at least 3 characters long"
ErrEmailRequired == "email is required"
ErrEmailFormat == "invalid email format"
ErrPasswordRequired == "password is required"
ErrBinding == "Field validation failed on the 'required' or 'email' tag"
ErrConstraint == "constraint failed"

ValidationErrors ==
    {ErrKindRequired, ErrAPIVersionRequired, ErrUsernameRequired, ErrUsernameShort,
     ErrEmailRequired, ErrEmailFormat, ErrPasswordRequired}

(***************************************************************************)
(* meta.BaseResource                                                       *)
(***************************************************************************)
SetStatus(b, phase) == [b EXCEPT !.phase = phase]

BaseResourceValidate(b) ==
    IF b.kind = "" THEN ErrKindRequired
    ELSE IF b.apiVersion = "" THEN ErrAPIVersionRequired
    ELSE Nil

\* uuid.New().String(): a value no earlier draw and no client has
NewUUID(n) == "uuid-" \o ToString(n)

\* a BeforeCreate that assigns uid, resourceVersion and phase whatever the caller set
BaseResourceBeforeCreate_Overwrites(b, n) ==
    LET b3 == [b EXCEPT !.uid = NewUUID(n), !.resourceVersion = 1, !.phase = "Pending"]
    IN  [res |-> b3, err |-> BaseResourceValidate(b3)]

\* a BeforeCreate that leaves a zero resourceVersion at zero
BaseResourceBeforeCreate_KeepsVersion(b, n) ==
    LET b1 == IF b.uid = "" THEN [b EXCEPT !.uid = NewUUID(n)] ELSE b
        b3 == IF b1.phase = "" THEN SetStatus(b1, "Pending") ELSE b1
    IN  [res |-> b3, err |-> BaseResourceValidate(b3)]

BaseResourceBeforeCreate(b, n) ==
    LET b1 == IF b.uid = "" THEN [b EXCEPT !.uid = NewUUID(n)] ELSE b
        b2 == IF b1.resourceVersion = 0 THEN [b1 EXCEPT !.resourceVersion = 1] ELSE b1
        b3 == IF b2.phase = "" THEN SetStatus(b2, "Pending") ELSE b2
    IN  [res |-> b3, err |-> BaseResourceValidate(b3)]

\* a BeforeUpdate that leaves the resourceVersion as it is
BaseResourceBeforeUpdate_KeepsVersion(b) ==
    [res |-> b, err |-> BaseResourceValidate(b)]

\* a BeforeUpdate that also marks the resource as updated in its status
BaseResourceBeforeUpdate_SetsStatus(b) ==
    LET b1 == SetStatus([b EXCEPT !.resourceVersion = @ + 1], "Updated")
    IN  [res |-> b1, err |-> BaseResourceValidate(b1)]

BaseResourceBeforeUpdate(b) ==
    LET b1 == [b EXCEPT !.resourceVersion = @ + 1]
    IN  [res |-> b1, err |-> BaseResourceValidate(b1)]

BaseResourceBeforeDelete(b) == [res |-> b, err |-> Nil]

(***************************************************************************)
(* apiv1.User                                                              *)
(***************************************************************************)
PlainPasswords == {"", "pw"}

\* bcrypt.GenerateFromPassword: a "$2a$" string that is not the password
GenerateFromPassword(p) == "$2a$" \o p

\* the password strings of the model: the plain ones, the one of the tests, and a string
\* a client submits that begins with "$2a$"
Passwords == PlainPasswords \cup {"password123", GenerateFromPassword("pw")}

\* strings.HasPrefix(password, "$2a$"), for the passwords of the model and their hashes
HasPrefix2a(p) == \E q \in Passwords : p = "$2a$" \o q

\* bcrypt.CompareHashAndPassword(hash, password) == nil
CompareHashAndPassword(hash, p) == hash = GenerateFromPassword(p)

ErrMismatchedHashAndPassword == "hashedPassword is not the hash of the given password"

UserComparePassword(u, p) ==
    IF CompareHashAndPassword(u.password, p) THEN Nil ELSE ErrMismatchedHashAndPassword

\* len(u.Username) for the usernames of the model
UsernameLen(u) == CASE u = "" -> 0 [] u = "ab" -> 2 [] OTHER -> 5

\* the addresses of the model that match emailRegex (and gin's email tag)
EmailRegexMatch(e) == e \in {"a@example.com", "b@example.com"}

UserValidate(u) ==
    IF BaseResourceValidate(u) # Nil THEN BaseResourceValidate(u)
    ELSE IF u.username = "" THEN ErrUsernameRequired
    ELSE IF UsernameLen(u.username) < 3 THEN ErrUsernameShort
    ELSE IF u.email = "" THEN ErrEmailRequired
    ELSE IF ~EmailRegexMatch(u.email) THEN ErrEmailFormat
    ELSE IF u.password = "" THEN ErrPasswordRequired
    ELSE Nil

HashPassword(u) ==
    IF ~HasPrefix2a(u.password)
    THEN [u EXCEPT !.password = GenerateFromPassword(@)]
    ELSE u

\* a BeforeCreate that keeps the phase the caller supplied
UserBeforeCreate_KeepsPhase(u, n) ==
    LET u1 == [u EXCEPT !.kind = "User", !.apiVersion = "v1"]
        u2 == IF u1.phase = "" THEN SetStatus(u1, "Active") ELSE u1
    IN  BaseResourceBeforeCreate(HashPassword(u2), n)

UserBeforeCreate(u, n) ==
    LET u1 == [u EXCEPT !.kind = "User", !.apiVersion = "v1"]
        u2 == SetStatus(u1, "Active")
    IN  BaseResourceBeforeCreate(HashPassword(u2), n)

UserBeforeUpdate(u) ==
    LET u1 == [u EXCEPT !.kind = "User", !.apiVersion = "v1"]
        u2 == SetStatus(u1, "Active")
    IN  BaseResourceBeforeUpdate(HashPassword(u2))

UserBeforeDelete(u) == BaseResourceBeforeDelete(SetStatus(u, "Deleted"))

(***************************************************************************)
(* Dispatch on the resource type: the hooks GORM finds on *T, and the      *)
(* Validate method the Validator type assertion finds on *T.               *)
(***************************************************************************)
BeforeCreate(t, r, n) ==
    CASE t = "User" -> UserBeforeCreate(r, n)
      [] OTHER -> BaseResourceBeforeCreate(r, n)

BeforeUpdate(t, r) ==
    CASE t = "User" -> UserBeforeUpdate(r)
      [] OTHER -> BaseResourceBeforeUpdate(r)

BeforeDelete(t, r) ==
    CASE t = "User" -> UserBeforeDelete(r)
      [] OTHER -> BaseResourceBeforeDelete(r)

Validate(t, r) ==
    CASE t = "User" -> UserValidate(r)
      [] OTHER -> BaseResourceValidate(r)

(***************************************************************************)
(* The store, as GORM drives it.  db is the record [store, nextId,         *)
(* nextUid]; every statement answers [err, db, obj, rowsAffected]: the     *)
(* error, the database after it (the database before it when the implicit  *)
(* transaction rolls back), the caller's struct as the hooks and the       *)
(* statement left it, and the rows affected.                               *)
(***************************************************************************)
Answer(err, db, obj, n) == [err |-> err, db |-> db, obj |-> obj, rowsAffected |-> n]

\* gorm:"default:true" on User.IsActive: a zero value is replaced by the default on insert
ApplyColumnDefaults(t, r) ==
    IF t = "User" /\ ~r.isActive THEN [r EXCEPT !.isActive = TRUE] ELSE r

\* gorm:"unique" on User.Username and User.Email
UniqueViolation(t, st, row, id) ==
    /\ t = "User"
    /\ \E i \in DOMAIN st \ {id} :
          st[i].username = row.username \/ st[i].email = row.email

\* whether field c of value holds the zero value of its type, which Updates(struct) skips
IsZero(value, c) == value[c] = ZeroT[c]

\* db.Create(&value): BeforeCreate hook, column defaults, INSERT
gormCreate(db, t, value, skipHooks) ==
    LET h == IF skipHooks THEN [res |-> value, err |-> Nil]
             ELSE BeforeCreate(t, value, db.nextUid)
        d == ApplyColumnDefaults(t, h.res)
        id == IF d.id = 0 THEN db.nextId ELSE d.id
        row == [d EXCEPT !.id = id]
        drawn == ~skipHooks /\ value.uid = ""
    IN  IF h.err # Nil THEN Answer(h.err, db, h.res, 0)
        ELSE IF id \in DOMAIN db.store \/ UniqueViolation(t, db.store, row, id)
        THEN Answer(ErrConstraint, db, d, 0)
        ELSE Answer(Nil,
                    [store |-> (id :> row) @@ db.store,
                     nextId |-> Max(db.nextId, id + 1),
                     nextUid |-> IF drawn THEN db.nextUid + 1 ELSE db.nextUid],
                    row, 1)

\* db.First(&obj, id)
\* a First that forgets its condition and loads the first row of the table
gormFirst_AnyRow(db, id) ==
    IF id \in DOMAIN db.store
    THEN Answer(Nil, db, db.store[CHOOSE i \in DOMAIN db.store :
                                     \A j \in DOMAIN db.store : i <= j], 1)
    ELSE Answer(ErrRecordNotFound, db, ZeroT, 0)

gormFirst(db, id) ==
    IF id \in DOMAIN db.store
    THEN Answer(Nil, db, db.store[id], 1)
    ELSE Answer(ErrRecordNotFound, db, ZeroT, 0)

\* the row after UPDATE ... SET of the non-zero fields of value (never the primary key)
AssignNonZero(row, value) ==
    [c \in Columns |->
        IF c = "id" \/ IsZero(value, c) THEN row[c] ELSE value[c]]

\* db.Model(value).Where("id = ?", id).Updates(value): BeforeUpdate hook on value,
\* then UPDATE of the non-zero fields WHERE id = ? (AND id = value.id when that is set)
\* an Updates that writes the row although the BeforeUpdate hook failed
gormUpdates_WritesAfterHookError(db, t, id, value) ==
    LET h == BeforeUpdate(t, value)
        v == h.res
        hit == id \in DOMAIN db.store /\ (v.id = 0 \/ v.id = id)
        row == AssignNonZero(db.store[id], v)
    IN  IF ~hit THEN Answer(h.err, db, v, 0)
        ELSE IF UniqueViolation(t, db.store, row, id) THEN Answer(ErrConstraint, db, v, 0)
        ELSE Answer(h.err, [db EXCEPT !.store = [@ EXCEPT ![id] = row]], v, 1)

gormUpdates(db, t, id, value) ==
    LET h == BeforeUpdate(t, value)
        v == h.res
        hit == id \in DOMAIN db.store /\ (v.id = 0 \/ v.id = id)
        row == AssignNonZero(db.store[id], v)
    IN  IF h.err # Nil THEN Answer(h.err, db, v, 0)
        ELSE IF ~hit THEN Answer(Nil, db, v, 0)
        ELSE IF UniqueViolation(t, db.store, row, id) THEN Answer(ErrConstraint, db, v, 0)
        ELSE Answer(Nil, [db EXCEPT !.store = [@ EXCEPT ![id] = row]], v, 1)

\* db.Save(&value): INSERT when the primary key is zero; otherwise BeforeUpdate hook and
\* UPDATE of every field WHERE id = value.id, and when that matches no row an INSERT
\* ... ON CONFLICT DO UPDATE without hooks
gormSave(db, t, value) ==
    IF value.id = 0 THEN gormCreate(db, t, value, FALSE)
    ELSE LET h == BeforeUpdate(t, value)
             v == h.res
         IN  IF h.err # Nil THEN Answer(h.err, db, v, 0)
             ELSE IF v.id \notin DOMAIN db.store THEN gormCreate(db, t, v, TRUE)
             ELSE IF UniqueViolation(t, db.store, v, v.id) THEN Answer(ErrConstraint, db, v, 0)
             ELSE Answer(Nil, [db EXCEPT !.store = [@ EXCEPT ![v.id] = v]], v, 1)

\* db.Delete(&value, id): BeforeDelete hook on value, then DELETE WHERE id = ?
\* a Delete that reports the row as deleted and keeps it
gormDelete_KeepsRow(db, t, value, id) ==
    LET h == BeforeDelete(t, value)
    IN  IF h.err # Nil THEN Answer(h.err, db, h.res, 0)
        ELSE IF id \notin DOMAIN db.store THEN Answer(Nil, db, h.res, 0)
        ELSE Answer(Nil, db, h.res, 1)

gormDelete(db, t, value, id) ==
    LET h == BeforeDelete(t, value)
    IN  IF h.err # Nil THEN Answer(h.err, db, h.res, 0)
        ELSE IF id \notin DOMAIN db.store THEN Answer(Nil, db, h.res, 0)
        ELSE Answer(Nil,
                    [db EXCEPT !.store = [i \in DOMAIN db.store \ {id} |-> db.store[i]]],
                    h.res, 1)

(***************************************************************************)
(* internal.DAO[T]                                                         *)
(***************************************************************************)
DAOCreate(db, t, resource) == gormCreate(db, t, resource, FALSE)

DAOGet(db, id) == gormFirst(db, id)

DAOUpdate(db, t, id, resource) ==
    LET result == gormUpdates(db, t, id, resource)
    IN  IF result.err # Nil THEN result
        ELSE IF result.rowsAffected = 0 THEN [result EXCEPT !.err = ErrRecordNotFound]
        ELSE result

DAODelete(db, t, id) ==
    LET result == gormDelete(db, t, ZeroT, id)
    IN  IF result.err # Nil THEN result
        ELSE IF result.rowsAffected = 0 THEN [result EXCEPT !.err = ErrRecordNotFound]
        ELSE result

\* the rows in the store's default order (rowid order)
RECURSIVE RowsFrom(_, _)
RowsFrom(st, i) ==
    IF \A j \in DOMAIN st : j < i THEN <<>>
    ELSE IF i \in DOMAIN st THEN <<st[i]>> \o RowsFrom(st, i + 1)
    ELSE RowsFrom(st, i + 1)

\* query.Offset(offset).Limit(pageSize).Find(&resources) over rows
OffsetLimit(rows, offset, limit) ==
    SubSeq(rows, offset + 1, Min(offset + limit, Len(rows)))

\* a List whose pages are counted from 0
DAOList_ZeroBasedPage(db, page, pageSize) ==
    LET rows == RowsFrom(db.store, 1)
        offset == page * pageSize
    IN  [resources |-> OffsetLimit(rows, offset, pageSize), total |-> Len(rows)]

\* DAO.List with a nil filter: [resources, total]
DAOList(db, page, pageSize) ==
    LET rows == RowsFrom(db.store, 1)
        offset == (page - 1) * pageSize
    IN  [resources |-> OffsetLimit(rows, offset, pageSize), total |-> Len(rows)]

\* DAO.Transaction(fc), given the answer of fc run on db: rolled back when fc failed
\* a Transaction that commits whatever fc returns
DAOTransaction_NoRollback(db, answer) == answer

DAOTransaction(db, answer) ==
    IF answer.err # Nil THEN [answer EXCEPT !.db = db] ELSE answer

(***************************************************************************)
(* Request decoding (gin's ShouldBindJSON): encoding/json writes the       *)
(* fields the body carries over obj and leaves the others; then the        *)
(* binding tags of T are checked on the result.                            *)
(***************************************************************************)
EmptyBody == [c \in {} |-> ""]

Decode(obj, body) == [c \in Columns |-> IF c \in DOMAIN body THEN body[c] ELSE obj[c]]

\* binding:"required" on Username and Password, binding:"required,email" on Email
\* a binding without the "required" tags: only the email format is checked
BindingError_NothingRequired(t, obj) ==
    IF t = "User" /\ obj.email # "" /\ ~EmailRegexMatch(obj.email)
    THEN ErrBinding ELSE Nil

BindingError(t, obj) ==
    IF t = "User" /\ (obj.username = "" \/ obj.email = "" \/ obj.password = ""
                      \/ ~EmailRegexMatch(obj.email))
    THEN ErrBinding ELSE Nil

ShouldBindJSON(t, obj, body) ==
    LET decoded == Decode(obj, body)
    IN  [obj |-> decoded, err |-> BindingError(t, decoded)]

\* c.JSON(code, resource): omitempty drops the zero kind, apiVersion, uid,
\* resourceVersion and phase
ToJSON(r) ==
    [c \in {c \in Columns :
              c \in {"id", "username", "email", "password", "isActive"} \/ ~IsZero(r, c)}
       |-> r[c]]

(***************************************************************************)
(* Responses: the status code, the error answered (Nil on success), the    *)
(* database after the request, the resource written to the body, and       *)
(* whether the handler reached its create statement.                       *)
(***************************************************************************)
NoBody == EmptyBody

Response(code, err, db, body, createCalled) ==
    [code |-> code, err |-> err, db |-> db, body |-> body, createCalled |-> createCalled]

StatusOK == 200
StatusCreated == 201
StatusNoContent == 204
StatusBadRequest == 400
StatusNotFound == 404
StatusInternalServerError == 500

(***************************************************************************)
(* Router[T]: the handlers registered by Router.Register                   *)
(***************************************************************************)
RouterCreate(db, t, body) ==
    LET bound == ShouldBindJSON(t, ZeroT, body)
        answer == DAOCreate(db, t, bound.obj)
    IN  IF bound.err # Nil
        THEN Response(StatusBadRequest, bound.err, db, NoBody, FALSE)
        ELSE IF Validate(t, bound.obj) # Nil
        THEN Response(StatusBadRequest, Validate(t, bound.obj), db, NoBody, FALSE)
        ELSE IF answer.err # Nil
        THEN Response(StatusInternalServerError, answer.err, answer.db, NoBody, TRUE)
        ELSE Response(StatusCreated, Nil, answer.db, ToJSON(answer.obj), TRUE)

RouterGet(db, t, id) ==
    LET answer == DAOGet(db, id)
    IN  IF answer.err = ErrRecordNotFound
        THEN Response(StatusNotFound, answer.err, db, NoBody, FALSE)
        ELSE IF answer.err # Nil
        THEN Response(StatusInternalServerError, answer.err, db, NoBody, FALSE)
        ELSE Response(StatusOK, Nil, db, ToJSON(answer.obj), FALSE)

RouterUpdate(db, t, id, body) ==
    LET bound == ShouldBindJSON(t, ZeroT, body)
        answer == DAOUpdate(db, t, id, bound.obj)
    IN  IF bound.err # Nil
        THEN Response(StatusBadRequest, bound.err, db, NoBody, FALSE)
        ELSE IF answer.err = ErrRecordNotFound
        THEN Response(StatusNotFound, answer.err, answer.db, NoBody, FALSE)
        ELSE IF answer.err # Nil
        THEN Response(StatusInternalServerError, answer.err, answer.db, NoBody, FALSE)
        ELSE Response(StatusOK, Nil, answer.db, ToJSON(answer.obj), FALSE)

RouterDelete(db, t, id) ==
    LET answer == DAODelete(db, t, id)
    IN  IF answer.err = ErrRecordNotFound
        THEN Response(StatusNotFound, answer.err, answer.db, NoBody, FALSE)
        ELSE IF answer.err # Nil
        THEN Response(StatusInternalServerError, answer.err, answer.db, NoBody, FALSE)
        ELSE Response(StatusNoContent, Nil, answer.db, NoBody, FALSE)

(***************************************************************************)
(* The handlers registered by RegisterResource                             *)
(***************************************************************************)
ResourcePost(db, t, body) ==
    LET bound == ShouldBindJSON(t, ZeroT, body)
        answer == DAOTransaction(db, gormCreate(db, t, bound.obj, FALSE))
    IN  IF bound.err # Nil
        THEN Response(StatusBadRequest, bound.err, db, NoBody, FALSE)
        ELSE IF answer.err # Nil
        THEN Response(StatusInternalServerError, answer.err, answer.db, NoBody, TRUE)
        ELSE Response(StatusCreated, Nil, answer.db, ToJSON(answer.obj), TRUE)

ResourceGet(db, t, id) ==
    LET answer == DAOGet(db, id)
    IN  IF answer.err = ErrRecordNotFound
        THEN Response(StatusNotFound, answer.err, db, NoBody, FALSE)
        ELSE IF answer.err # Nil
        THEN Response(StatusInternalServerError, answer.err, db, NoBody, FALSE)
        ELSE Response(StatusOK, Nil, db, ToJSON(answer.obj), FALSE)

ResourcePut(db, t, id, body) ==
    LET first == gormFirst(db, id)
        bound == ShouldBindJSON(t, first.obj, body)
        answer == DAOTransaction(db, gormSave(db, t, bound.obj))
    IN  IF first.err = ErrRecordNotFound
        THEN Response(StatusNotFound, first.err, db, NoBody, FALSE)
        ELSE IF first.err # Nil
        THEN Response(StatusInternalServerError, first.err, db, NoBody, FALSE)
        ELSE IF bound.err # Nil
        THEN Response(StatusBadRequest, bound.err, db, NoBody, FALSE)
        ELSE IF answer.err # Nil
        THEN Response(StatusInternalServerError, answer.err, answer.db, NoBody, FALSE)
        ELSE Response(StatusOK, Nil, answer.db, ToJSON(answer.obj), FALSE)

ResourceDelete(db, t, id) ==
    LET answer == DAOTransaction(db, gormDelete(db, t, ZeroT, id))
    IN  IF answer.err # Nil
        THEN Response(StatusInternalServerError, answer.err, answer.db, NoBody, FALSE)
        ELSE Response(StatusNoContent, Nil, answer.db, NoBody, FALSE)

(***************************************************************************)
(* The requests of the model.  A body is put together from a type part, a  *)
(* metadata part and a domain part; the metadata parts are combined with   *)
(* the well-formed domain parts only.  The bodies a client builds from a   *)
(* response (the JSON of a persisted row) are added to them.               *)
(***************************************************************************)
TypeMetaParts(t) ==
    {EmptyBody, [kind |-> t, apiVersion |-> "v1"]}

MetaParts ==
    {EmptyBody, [resourceVersion |-> 2], [id |-> 2]}

ValidDomainParts(t) ==
    IF t = "User"
    THEN {[username |-> "alice", email |-> "a@example.com", password |-> "pw"],
          [username |-> "bob", email |-> "b@example.com", password |-> "pw",
           isActive |-> FALSE]}
    ELSE {[username |-> "alice"], [username |-> "bob"]}

OtherDomainParts(t) ==
    IF t = "User"
    THEN {EmptyBody,
          [email |-> "a@example.com", password |-> "pw"],
          [username |-> "alice", email |-> "a@example.com"],
          [username |-> "ab", email |-> "b@example.com", password |-> "pw"],
          [username |-> "alice", email |-> "invalid-email", password |-> "pw"]}
    ELSE {EmptyBody}

StaticBodies ==
    [t \in ResourceTypes |->
        {tm @@ m @@ d : tm \in TypeMetaParts(t), m \in MetaParts, d \in ValidDomainParts(t)}
        \cup {tm @@ d : tm \in TypeMetaParts(t), d \in OtherDomainParts(t)}]

EchoBodies(t, st) == {ToJSON(st[i]) : i \in DOMAIN st}

Bodies(t, st) == StaticBodies[t] \cup EchoBodies(t, st)

\* the resource values handed to the DAO directly: well-formed ones and, as the
\* validation tests do, one that lacks its username
Resources(t, st) ==
    {Decode(ZeroT, body) :
        body \in {b \in Bodies(t, st) :
                     DOMAIN b \cap {"username", "email", "password"}
                        \in {{"username"}, {"username", "email", "password"},
                             {"email", "password"}}}}

PathIds == 1 .. (MaxId + 1)

(***************************************************************************)
(* State and actions: one action per DAO method called directly and one    *)
(* per registered route, each handling one call or request as a whole.     *)
(***************************************************************************)
DB == [store |-> store, nextId |-> nextId, nextUid |-> nextUid]

\* the bounds of the model on the database a step leaves
Bounded(db) ==
    /\ db.nextId <= MaxId + 1
    /\ db.nextUid <= MaxId + 1
    /\ \A i \in DOMAIN db.store : db.store[i].resourceVersion <= MaxVersion

Commit(db, l) ==
    /\ Bounded(db)
    /\ store' = db.store
    /\ nextId' = db.nextId
    /\ nextUid' = db.nextUid
    /\ last' = l
    /\ UNCHANGED <<rtype, api, workers, object>>

Last(route, op, id, req, code, err, resp, createCalled) ==
    [route |-> route, op |-> op, id |-> id, req |-> req, code |-> code, err |-> err,
     resp |-> resp, createCalled |-> createCalled]

OfCall(op, id, req, answer, createCalled) ==
    Last("DAO", op, id, req, 0, answer.err, answer.obj, createCalled)

OfRequest(route, op, id, req, response) ==
    Last(route, op, id, req, response.code, response.err, response.body,
         response.createCalled)

\* no call or request is being answered
Idle == Last("none", "none", 0, EmptyBody, 0, Nil, NoBody, FALSE)

Init ==
    /\ rtype \in ResourceTypes
    /\ api \in Apis
    /\ store = [i \in {} |-> ZeroT]
    /\ nextId = 1
    /\ nextUid = 1
    /\ last = Idle
    /\ workers = NoWorkers
    /\ object = NoObject

DAOCreateCall ==
    /\ last.op = "none"
    /\ api = "DAO"
    /\ \E resource \in Resources(rtype, store) :
           LET answer == DAOCreate(DB, rtype, resource)
           IN  Commit(answer.db, OfCall("create", 0, resource, answer, TRUE))

DAOGetCall ==
    /\ last.op = "none"
    /\ api = "DAO"
    /\ \E id \in PathIds :
           LET answer == DAOGet(DB, id)
           IN  Commit(answer.db, OfCall("get", id, EmptyBody, answer, FALSE))

DAOUpdateCall ==
    /\ last.op = "none"
    /\ api = "DAO"
    /\ \E id \in PathIds, resource \in Resources(rtype, store) :
           LET answer == DAOUpdate(DB, rtype, id, resource)
           IN  Commit(answer.db, OfCall("update", id, resource, answer, FALSE))

DAODeleteCall ==
    /\ last.op = "none"
    /\ api = "DAO"
    /\ \E id \in PathIds :
           LET answer == DAODelete(DB, rtype, id)
           IN  Commit(answer.db, OfCall("delete", id, EmptyBody, answer, FALSE))

RouterCreateReq ==
    /\ last.op = "none"
    /\ api = "Router"
    /\ \E body \in Bodies(rtype, store) :
           LET response == RouterCreate(DB, rtype, body)
           IN  Commit(response.db, OfRequest("Router", "create", 0, body, response))

RouterGetReq ==
    /\ last.op = "none"
    /\ api = "Router"
    /\ \E id \in PathIds :
           LET response == RouterGet(DB, rtype, id)
           IN  Commit(response.db, OfRequest("Router", "get", id, EmptyBody, response))

RouterUpdateReq ==
    /\ last.op = "none"
    /\ api = "Router"
    /\ \E id \in PathIds, body \in Bodies(rtype, store) :
           LET response == RouterUpdate(DB, rtype, id, body)
           IN  Commit(response.db, OfRequest("Router", "update", id, body, response))

RouterDeleteReq ==
    /\ last.op = "none"
    /\ api = "Router"
    /\ \E id \in PathIds :
           LET response == RouterDelete(DB, rtype, id)
           IN  Commit(response.db, OfRequest("Router", "delete", id, EmptyBody, response))

ResourcePostReq ==
    /\ last.op = "none"
    /\ api = "Resource"
    /\ \E body \in Bodies(rtype, store) :
           LET response == ResourcePost(DB, rtype, body)
           IN  Commit(response.db, OfRequest("Resource", "create", 0, body, response))

ResourceGetReq ==
    /\ last.op = "none"
    /\ api = "Resource"
    /\ \E id \in PathIds :
           LET response == ResourceGet(DB, rtype, id)
           IN  Commit(response.db, OfRequest("Resource", "get", id, EmptyBody, response))

ResourcePutReq ==
    /\ last.op = "none"
    /\ api = "Resource"
    /\ \E id \in PathIds, body \in Bodies(rtype, store) :
           LET response == ResourcePut(DB, rtype, id, body)
           IN  Commit(response.db, OfRequest("Resource", "update", id, body, response))

ResourceDeleteReq ==
    /\ last.op = "none"
    /\ api = "Resource"
    /\ \E id \in PathIds :
           LET response == ResourceDelete(DB, rtype, id)
           IN  Commit(response.db, OfRequest("Resource", "delete", id, EmptyBody, response))

\* the answer has been delivered; the next call or request may be handled
Return ==
    /\ last.op # "none"
    /\ last' = Idle
    /\ UNCHANGED <<rtype, api, store, nextId, nextUid, workers, object>>

Next ==
    \/ DAOCreateCall
    \/ DAOGetCall
    \/ DAOUpdateCall
    \/ DAODeleteCall
    \/ RouterCreateReq
    \/ RouterGetReq
    \/ RouterUpdateReq
    \/ RouterDeleteReq
    \/ ResourcePostReq
    \/ ResourceGetReq
    \/ ResourcePutReq
    \/ ResourceDeleteReq
    \/ Return

Spec == Init /\ [][Next]_vars

(***************************************************************************)
(* Properties.  last describes the call or request just handled and store  *)
(* is the table it left; in a step that handles one, the unprimed store is *)
(* the table it found.                                                     *)
(***************************************************************************)
\* the resource value the last call or request submitted
Submitted == Decode(ZeroT, last.req)

\* this step handles an update (DAO.Update, Router.Update or the RegisterResource PUT
\* handler) of an existing row and the update succeeds
UpdateSucceeds ==
    /\ last.op = "none"
    /\ last'.op = "update"
    /\ last'.err = Nil
    /\ last'.id \in DOMAIN store

\* C1: every successful update of a persisted resource, through any of the three update
\* paths and whatever resourceVersion the request carries, takes the persisted
\* resourceVersion from v to exactly v + 1 (never down, never past v + 1)
C1_UpdateAddsOneToVersion ==
    [][UpdateSucceeds =>
          /\ last'.id \in DOMAIN store'
          /\ store'[last'.id].resourceVersion = store[last'.id].resourceVersion + 1]_vars

\* C10 is checked on tables of up to MaxRows rows, listed with page sizes up to
\* MaxPageSize and pages up to MaxPage
MaxRows == 4
MaxPageSize == 3
MaxPage == MaxRows + 2

EmptyDB == [store |-> [i \in {} |-> ZeroT], nextId |-> 1, nextUid |-> 1]

\* a resource of the plain type that passes Validate
ListResource == Decode(ZeroT, [kind |-> "Resource", apiVersion |-> "v1", username |-> "alice"])

\* db after n calls of DAO.Create
RECURSIVE CreateRows(_, _)
CreateRows(db, n) ==
    IF n = 0 THEN db ELSE DAOCreate(CreateRows(db, n - 1), "Resource", ListResource).db

\* db after DAO.Delete of each id in ids
RECURSIVE DeleteRows(_, _)
DeleteRows(db, ids) ==
    IF ids = {} THEN db
    ELSE LET i == CHOOSE j \in ids : TRUE
         IN  DeleteRows(DAODelete(db, "Resource", i).db, ids \ {i})

\* a table of n created rows, some of them deleted again
InitList ==
    /\ rtype = "Resource"
    /\ api = "DAO"
    /\ last = Idle
    /\ workers = NoWorkers
    /\ object = NoObject
    /\ \E n \in 0 .. MaxRows : \E gone \in SUBSET (1 .. n) :
           LET db == DeleteRows(CreateRows(EmptyDB, n), gone)
           IN  /\ store = db.store
               /\ nextId = db.nextId
               /\ nextUid = db.nextUid

DAOListCall ==
    /\ last.op = "none"
    /\ \E page \in 1 .. MaxPage : \E pageSize \in 1 .. MaxPageSize :
           last' = Last("DAO", "list", 0, [page |-> page, pageSize |-> pageSize], 0, Nil,
                        DAOList(DB, page, pageSize), FALSE)
    /\ UNCHANGED <<rtype, api, store, nextId, nextUid, workers, object>>

NextList == DAOListCall \/ Return

SpecList == InitList /\ [][NextList]_vars

(***************************************************************************)
(* GET of the collection path.  A query is a function from the parameters  *)
(* the URL carries to their values; page and size are carried as the       *)
(* numbers strconv.Atoi reads.                                             *)
(***************************************************************************)
ErrNoSuchColumn == "no such column"

\* query.Where(filter) over rows
Where(rows, filter) ==
    LET Test(r) == \A k \in DOMAIN filter : r[k] = filter[k]
    IN  SelectSeq(rows, Test)

\* DAO.List with a filter: [resources, total, err]
DAOListWhere(db, page, pageSize, filter) ==
    LET rows == RowsFrom(db.store, 1)
        found == Where(rows, filter)
        offset == (page - 1) * pageSize
    IN  IF DOMAIN filter \ Columns # {}
        THEN [resources |-> <<>>, total |-> 0, err |-> ErrNoSuchColumn]
        ELSE [resources |-> OffsetLimit(found, offset, pageSize), total |-> Len(found),
              err |-> Nil]

DefaultPage == 1
DefaultSize == 10

\* strconv.Atoi(c.DefaultQuery("page", "1")) and strconv.Atoi(c.DefaultQuery("size", "10"))
QueryPage(q) == IF "page" \in DOMAIN q THEN q.page ELSE DefaultPage
QuerySize(q) == IF "size" \in DOMAIN q THEN q.size ELSE DefaultSize

\* the filters of the RegisterResource list handler: every parameter but page and size
QueryFilters(q) == [k \in DOMAIN q \ {"page", "size"} |-> q[k]]

ItemsJSON(resources) == [k \in 1 .. Len(resources) |-> ToJSON(resources[k])]

RouterList(db, t, q) ==
    LET l == DAOList(db, QueryPage(q), QuerySize(q))
    IN  Response(StatusOK, Nil, db, ItemsJSON(l.resources), FALSE)

ResourceList(db, t, q) ==
    LET l == DAOListWhere(db, QueryPage(q), QuerySize(q), QueryFilters(q))
    IN  IF l.err # Nil
        THEN Response(StatusInternalServerError, l.err, db, NoBody, FALSE)
        ELSE Response(StatusOK, Nil, db,
                      [items |-> ItemsJSON(l.resources), total |-> l.total,
                       page |-> QueryPage(q), size |-> QuerySize(q)], FALSE)

FilterParts ==
    {EmptyBody, [username |-> "alice"], [username |-> "bob"], [username |-> "carol"],
     [username |-> "alice", apiVersion |-> "v1"], [colour |-> "red"]}

Queries ==
    {pg @@ sz @@ f : pg \in {EmptyBody} \cup {[page |-> n] : n \in 1 .. MaxPage},
                     sz \in {EmptyBody} \cup {[size |-> n] : n \in 1 .. MaxPageSize},
                     f \in FilterParts}

\* a resource of type t named name that can be created
NamedResource(t, name) ==
    IF t = "User"
    THEN Decode(ZeroT, [username |-> name, password |-> "pw",
                        email |-> IF name = "alice" THEN "a@example.com" ELSE "b@example.com"])
    ELSE Decode(ZeroT, [kind |-> t, apiVersion |-> "v1", username |-> name])

\* db after DAO.Create of a resource for each name of names, in order
RECURSIVE CreateNamed(_, _, _)
CreateNamed(db, t, names) ==
    IF names = <<>> THEN db
    ELSE DAOCreate(CreateNamed(db, t, SubSeq(names, 1, Len(names) - 1)), t,
                   NamedResource(t, names[Len(names)])).db

\* a table of rows created with names, some of them deleted again
InitQuery ==
    /\ rtype \in ResourceTypes
    /\ api \in {"Router", "Resource"}
    /\ last = Idle
    /\ workers = NoWorkers
    /\ object = NoObject
    /\ \E n \in 0 .. MaxRows : \E names \in [1 .. n -> {"alice", "bob"}] :
       \E gone \in SUBSET (1 .. n) :
           LET db == DeleteRows(CreateNamed(EmptyDB, rtype, names), gone)
           IN  /\ store = db.store
               /\ nextId = db.nextId
               /\ nextUid = db.nextUid

RouterListReq ==
    /\ last.op = "none"
    /\ api = "Router"
    /\ \E q \in Queries :
           last' = OfRequest("Router", "list", 0, q, RouterList(DB, rtype, q))
    /\ UNCHANGED <<rtype, api, store, nextId, nextUid, workers, object>>

ResourceListReq ==
    /\ last.op = "none"
    /\ api = "Resource"
    /\ \E q \in Queries :
           last' = OfRequest("Resource", "list", 0, q, ResourceList(DB, rtype, q))
    /\ UNCHANGED <<rtype, api, store, nextId, nextUid, workers, object>>

NextQuery == RouterListReq \/ ResourceListReq \/ Return

SpecQuery == InitQuery /\ [][NextQuery]_vars

(***************************************************************************)
(* The /:id routes from the path segment on.  A segment is the text of     *)
(* the URL; strconv.ParseUint reads it with the bit size of the handler.   *)
(***************************************************************************)
ErrInvalidId == "invalid id"

PathSegments ==
    {"invalid", "-1", "1.5", "0", "1", "2", "3", "4294967296", "18446744073709551616"}

\* the segment is a string of decimal digits
IsDigits(seg) == seg \in {"0", "1", "2", "3", "4294967296", "18446744073709551616"}

\* the number of bits of the number a string of digits denotes
BitLen(seg) ==
    CASE seg = "0" -> 0
      [] seg = "1" -> 1
      [] seg \in {"2", "3"} -> 2
      [] seg = "4294967296" -> 33
      [] seg = "18446744073709551616" -> 65

\* the largest integer of the model checker: a larger id is carried as this one,
\* which no row of a bounded table has either
LargestInt == (2 ^ 30 - 1) * 2 + 1

DecimalValue(seg) ==
    CASE seg = "0" -> 0
      [] seg = "1" -> 1
      [] seg = "2" -> 2
      [] seg = "3" -> 3
      [] OTHER -> LargestInt

\* strconv.ParseUint(seg, 10, bitSize)
ParseUint(seg, bitSize) ==
    IF ~IsDigits(seg) \/ BitLen(seg) > bitSize
    THEN [value |-> 0, err |-> ErrInvalidId]
    ELSE [value |-> DecimalValue(seg), err |-> Nil]

RouterBitSize == 64
ResourceBitSize == 32

\* a handler of a /:id route: the id is parsed with the route's bit size, then the
\* handler answers for it (handled)
PathParam(db, seg, bitSize, handled) ==
    IF ParseUint(seg, bitSize).err # Nil
    THEN Response(StatusBadRequest, ParseUint(seg, bitSize).err, db, NoBody, FALSE)
    ELSE handled

\* bodies that carry a uid the client chose: the one the first row was given
UidBodies(t) ==
    {[kind |-> t, apiVersion |-> "v1", uid |-> NewUUID(1)] @@ d : d \in ValidDomainParts(t)}

PathBodies(t, st) == Bodies(t, st) \cup UidBodies(t)

\* a table of up to MaxId rows, some of them deleted again
InitPath ==
    /\ rtype \in ResourceTypes
    /\ api \in {"Router", "Resource"}
    /\ last = Idle
    /\ workers = NoWorkers
    /\ object = NoObject
    /\ \E n \in 0 .. MaxId : \E names \in [1 .. n -> {"alice", "bob"}] :
       \E gone \in SUBSET (1 .. n) :
           LET db == DeleteRows(CreateNamed(EmptyDB, rtype, names), gone)
           IN  /\ store = db.store
               /\ nextId = db.nextId
               /\ nextUid = db.nextUid

\* the request on segment seg was answered with response
OfSegment(route, op, seg, bitSize, req, response) ==
    [seg |-> seg] @@ OfRequest(route, op, ParseUint(seg, bitSize).value, req, response)

RouterGetPath ==
    /\ last.op = "none"
    /\ api = "Router"
    /\ \E seg \in PathSegments :
           LET response == PathParam(DB, seg, RouterBitSize,
                                     RouterGet(DB, rtype, ParseUint(seg, RouterBitSize).value))
           IN  Commit(response.db,
                      OfSegment("Router", "get", seg, RouterBitSize, EmptyBody, response))

RouterUpdatePath ==
    /\ last.op = "none"
    /\ api = "Router"
    /\ \E seg \in PathSegments, body \in PathBodies(rtype, store) :
           LET response == PathParam(DB, seg, RouterBitSize,
                                     RouterUpdate(DB, rtype, ParseUint(seg, RouterBitSize).value, body))
           IN  Commit(response.db,
                      OfSegment("Router", "update", seg, RouterBitSize, body, response))

RouterDeletePath ==
    /\ last.op = "none"
    /\ api = "Router"
    /\ \E seg \in PathSegments :
           LET response == PathParam(DB, seg, RouterBitSize,
                                     RouterDelete(DB, rtype, ParseUint(seg, RouterBitSize).value))
           IN  Commit(response.db,
                      OfSegment("Router", "delete", seg, RouterBitSize, EmptyBody, response))

ResourceGetPath ==
    /\ last.op = "none"
    /\ api = "Resource"
    /\ \E seg \in PathSegments :
           LET response == PathParam(DB, seg, ResourceBitSize,
                                     ResourceGet(DB, rtype, ParseUint(seg, ResourceBitSize).value))
           IN  Commit(response.db,
                      OfSegment("Resource", "get", seg, ResourceBitSize, EmptyBody, response))

ResourcePutPath ==
    /\ last.op = "none"
    /\ api = "Resource"
    /\ \E seg \in PathSegments, body \in PathBodies(rtype, store) :
           LET response == PathParam(DB, seg, ResourceBitSize,
                                     ResourcePut(DB, rtype, ParseUint(seg, ResourceBitSize).value, body))
           IN  Commit(response.db,
                      OfSegment("Resource", "update", seg, ResourceBitSize, body, response))

ResourceDeletePath ==
    /\ last.op = "none"
    /\ api = "Resource"
    /\ \E seg \in PathSegments :
           LET response == PathParam(DB, seg, ResourceBitSize,
                                     ResourceDelete(DB, rtype, ParseUint(seg, ResourceBitSize).value))
           IN  Commit(response.db,
                      OfSegment("Resource", "delete", seg, ResourceBitSize, EmptyBody, response))

NextPath ==
    \/ RouterGetPath
    \/ RouterUpdatePath
    \/ RouterDeletePath
    \/ ResourceGetPath
    \/ ResourcePutPath
    \/ ResourceDeletePath
    \/ Return

SpecPath == InitPath /\ [][NextPath]_vars

(***************************************************************************)
(* Concurrent requests.  gin serves every request on a goroutine of its    *)
(* own and the handlers take no lock: the steps of a request are its       *)
(* statements on the database, and the steps of different requests         *)
(* interleave.  A GET is one statement (First); a PUT of Router is one     *)
(* statement (Updates); a PUT of RegisterResource is First, then the       *)
(* binding of the body over the loaded row and Save.                       *)
(***************************************************************************)
MaxWorkers == 2

Workers == 1 .. MaxWorkers

\* pc: "idle" before the request, "loaded" between First and Save of a PUT, "done"
\* when answered; obj: the row First loaded; turn: the rank of the answer among the
\* answers given so far
Worker(pc, op, id, body, obj, code, resp, turn) ==
    [pc |-> pc, op |-> op, id |-> id, body |-> body, obj |-> obj, code |-> code,
     resp |-> resp, turn |-> turn]

IdleWorker == Worker("idle", "none", 0, EmptyBody, ZeroT, 0, NoBody, 0)

Turn == 1 + Cardinality({w \in DOMAIN workers : workers[w].pc = "done"})

Answered(w, op, id, body, response) ==
    Worker("done", op, id, body, workers[w].obj, response.code, response.body, Turn)

\* the RegisterResource PUT handler from the binding on, obj being the loaded row
ResourcePutSave(db, t, obj, body) ==
    LET bound == ShouldBindJSON(t, obj, body)
        answer == DAOTransaction(db, gormSave(db, t, bound.obj))
    IN  IF bound.err # Nil
        THEN Response(StatusBadRequest, bound.err, db, NoBody, FALSE)
        ELSE IF answer.err # Nil
        THEN Response(StatusInternalServerError, answer.err, answer.db, NoBody, FALSE)
        ELSE Response(StatusOK, Nil, answer.db, ToJSON(answer.obj), FALSE)

ConcurrentBodies(t) ==
    {tm @@ m @@ d : tm \in {[kind |-> t, apiVersion |-> "v1"]},
                    m \in {EmptyBody, [resourceVersion |-> 1]},
                    d \in ValidDomainParts(t)}

ConcurrentIds == 1 .. MaxId

\* a table of up to MaxId rows and the workers waiting for requests
InitConcurrent ==
    /\ rtype \in ResourceTypes
    /\ api \in {"Router", "Resource"}
    /\ last = Idle
    /\ workers = [w \in Workers |-> IdleWorker]
    /\ object = NoObject
    /\ \E n \in 0 .. MaxId : \E names \in [1 .. n -> {"alice", "bob"}] :
           LET db == CreateNamed(EmptyDB, rtype, names)
           IN  /\ store = db.store
               /\ nextId = db.nextId
               /\ nextUid = db.nextUid

\* worker w takes its step, which leaves database db and the worker as worker
WorkerStep(w, db, worker) ==
    /\ Bounded(db)
    /\ store' = db.store
    /\ nextId' = db.nextId
    /\ nextUid' = db.nextUid
    /\ workers' = [workers EXCEPT ![w] = worker]
    /\ UNCHANGED <<rtype, api, last, object>>

ServeGet ==
    \E w \in Workers, id \in ConcurrentIds :
        /\ workers[w].pc = "idle"
        /\ LET response == IF api = "Router" THEN RouterGet(DB, rtype, id)
                           ELSE ResourceGet(DB, rtype, id)
           IN  WorkerStep(w, response.db, Answered(w, "get", id, EmptyBody, response))

ServeRouterUpdate ==
    \E w \in Workers, id \in ConcurrentIds, body \in ConcurrentBodies(rtype) :
        /\ api = "Router"
        /\ workers[w].pc = "idle"
        /\ LET response == RouterUpdate(DB, rtype, id, body)
           IN  WorkerStep(w, response.db, Answered(w, "update", id, body, response))

ServePutLoad ==
    \E w \in Workers, id \in ConcurrentIds, body \in ConcurrentBodies(rtype) :
        /\ api = "Resource"
        /\ workers[w].pc = "idle"
        /\ LET first == gormFirst(DB, id)
           IN  IF first.err # Nil
               THEN WorkerStep(w, DB,
                        Answered(w, "update", id, body,
                                 Response(StatusNotFound, first.err, DB, NoBody, FALSE)))
               ELSE WorkerStep(w, DB,
                        Worker("loaded", "update", id, body, first.obj, 0, NoBody, 0))

ServePutSave ==
    \E w \in Workers :
        /\ workers[w].pc = "loaded"
        /\ LET response == ResourcePutSave(DB, rtype, workers[w].obj, workers[w].body)
           IN  WorkerStep(w, response.db,
                          Answered(w, "update", workers[w].id, workers[w].body, response))

NextConcurrent == ServeGet \/ ServeRouterUpdate \/ ServePutLoad \/ ServePutSave

SpecConcurrent == InitConcurrent /\ [][NextConcurrent]_vars

\* a DELETE is one statement (Delete)
ServeDelete ==
    \E w \in Workers, id \in ConcurrentIds :
        /\ workers[w].pc = "idle"
        /\ LET response == IF api = "Router" THEN RouterDelete(DB, rtype, id)
                           ELSE ResourceDelete(DB, rtype, id)
           IN  WorkerStep(w, response.db, Answered(w, "delete", id, EmptyBody, response))

\* PUTs and DELETEs in progress together
NextInFlight == ServeRouterUpdate \/ ServePutLoad \/ ServePutSave \/ ServeDelete

SpecInFlight == InitConcurrent /\ [][NextInFlight]_vars

(***************************************************************************)
(* DAO.Transaction(fc) called by a client of the DAO.  fc is a sequence    *)
(* of statements on tx; it returns the error of the first statement that   *)
(* fails, and after its last statement the result it was written to        *)
(* return.                                                                 *)
(***************************************************************************)
ErrFn == "fc failed"

Statements(t) ==
    {[op |-> "create", resource |-> NamedResource(t, name)] : name \in {"alice", "bob"}}
        \cup {[op |-> "delete", id |-> id] : id \in 1 .. MaxId}

MaxStatements == 2

Functions(t) ==
    {[stmts |-> stmts, result |-> result] :
        stmts \in UNION {[1 .. n -> Statements(t)] : n \in 1 .. MaxStatements},
        result \in {Nil, ErrFn}}

\* tx.Create(resource) or tx.Delete(new(T), id)
Execute(db, t, stmt) ==
    IF stmt.op = "create" THEN gormCreate(db, t, stmt.resource, FALSE)
    ELSE gormDelete(db, t, ZeroT, stmt.id)

\* fc(tx), from statement i on: the error fc returns and the database it leaves in tx
RECURSIVE RunFn(_, _, _, _)
RunFn(db, t, fn, i) ==
    IF i > Len(fn.stmts) THEN Answer(fn.result, db, ZeroT, 0)
    ELSE LET done == Execute(db, t, fn.stmts[i])
         IN  IF done.err # Nil THEN Answer(done.err, done.db, ZeroT, 0)
             ELSE RunFn(done.db, t, fn, i + 1)

InitTransaction ==
    /\ rtype \in ResourceTypes
    /\ api = "DAO"
    /\ last = Idle
    /\ workers = NoWorkers
    /\ object = NoObject
    /\ \E n \in 0 .. MaxId - 1 : \E names \in [1 .. n -> {"alice", "bob"}] :
       \E gone \in SUBSET (1 .. n) :
           LET db == DeleteRows(CreateNamed(EmptyDB, rtype, names), gone)
           IN  /\ store = db.store
               /\ nextId = db.nextId
               /\ nextUid = db.nextUid

DAOTransactionCall ==
    /\ last.op = "none"
    /\ \E fn \in Functions(rtype) :
           LET answer == DAOTransaction(DB, RunFn(DB, rtype, fn, 1))
           IN  Commit(answer.db, OfCall("transaction", 0, fn, answer, FALSE))

NextTransaction == DAOTransactionCall \/ Return

SpecTransaction == InitTransaction /\ [][NextTransaction]_vars

(***************************************************************************)
(* BaseResource.BeforeCreate on its own: a resource of the plain type,     *)
(* whose hook is BaseResource.BeforeCreate, is drawn with its fields set   *)
(* or unset and handed to db.Create.                                       *)
(***************************************************************************)
DrawnResources ==
    [kind : {"", "Resource"}, apiVersion : {"", "v1"}, id : {0}, uid : {"", "client-uid"},
     resourceVersion : {0, 1, 2}, phase : {"", "Active"}, username : {"", "alice", "bob"},
     email : {""}, password : {""}, isActive : {FALSE}]

InitHook ==
    /\ rtype = "Resource"
    /\ api = "DAO"
    /\ store = EmptyDB.store
    /\ nextId = EmptyDB.nextId
    /\ nextUid = EmptyDB.nextUid
    /\ workers = NoWorkers
    /\ object = NoObject
    /\ \E resource \in DrawnResources : last = [Idle EXCEPT !.req = resource]

CreateDrawn ==
    /\ last.op = "none"
    /\ LET answer == DAOCreate(DB, rtype, last.req)
       IN  Commit(answer.db, OfCall("create", 0, last.req, answer, TRUE))

NextHook == CreateDrawn

SpecHook == InitHook /\ [][NextHook]_vars

(***************************************************************************)
(* The metadata accessors of BaseResource.  A Go map is held as whether    *)
(* it is initialised (non-nil) and the function from its keys to their     *)
(* values; b is the resource as far as the accessors see it:               *)
(* [annotations, labels].                                                  *)
(***************************************************************************)
NilMap == [initialised |-> FALSE, entries |-> [k \in {} |-> ""]]

MakeMap(entries) == [initialised |-> TRUE, entries |-> entries]

SetMetadata(b, key, value) ==
    LET made == IF ~b.annotations.initialised
                THEN [b EXCEPT !.annotations = MakeMap(NilMap.entries)]
                ELSE b
    IN  [made EXCEPT !.annotations.entries = (key :> value) @@ @]

GetMetadata(b, key) ==
    IF ~b.annotations.initialised THEN [value |-> "", found |-> FALSE]
    ELSE IF key \in DOMAIN b.annotations.entries
    THEN [value |-> b.annotations.entries[key], found |-> TRUE]
    ELSE [value |-> "", found |-> FALSE]

\* a DeleteMetadata that makes the map before it deletes
DeleteMetadata_Initialises(b, key) ==
    [b EXCEPT !.annotations =
        MakeMap([k \in DOMAIN b.annotations.entries \ {key} |-> b.annotations.entries[k]])]

DeleteMetadata(b, key) ==
    IF ~b.annotations.initialised THEN b
    ELSE [b EXCEPT !.annotations.entries = [k \in DOMAIN @ \ {key} |-> @[k]]]

MetadataKeys == {"key1", "key2", "key3"}
MetadataValues == {"value1", "value2"}

\* object holds the resource and, for the record, what the calls so far amount to:
\* for every key set and not deleted since, the value it was last set to
Held(b, set) == [resource |-> b, set |-> set]

\* a resource fresh from its literal, or with empty mappings, and no call made yet
InitMetadata ==
    /\ rtype = "Resource"
    /\ api = "DAO"
    /\ store = EmptyDB.store
    /\ nextId = EmptyDB.nextId
    /\ nextUid = EmptyDB.nextUid
    /\ last = Idle
    /\ workers = NoWorkers
    /\ \E annotations \in {NilMap, MakeMap(NilMap.entries)} :
       \E labels \in {NilMap, MakeMap([k \in {"tier"} |-> "test"])} :
           object = Held([annotations |-> annotations, labels |-> labels], NilMap.entries)

\* the accessor op was called with args, returned result and left the resource as b
MetadataCall(op, args, result, b, set) ==
    /\ last' = Last("BaseResource", op, 0, args, 0, Nil, result, FALSE)
    /\ object' = Held(b, set)
    /\ UNCHANGED <<rtype, api, store, nextId, nextUid, workers>>

SetMetadataCall ==
    \E key \in MetadataKeys, value \in MetadataValues :
        MetadataCall("SetMetadata", [key |-> key, value |-> value], NoBody,
                     SetMetadata(object.resource, key, value),
                     (key :> value) @@ object.set)

GetMetadataCall ==
    \E key \in MetadataKeys :
        MetadataCall("GetMetadata", [key |-> key], GetMetadata(object.resource, key),
                     object.resource, object.set)

DeleteMetadataCall ==
    \E key \in MetadataKeys :
        MetadataCall("DeleteMetadata", [key |-> key], NoBody,
                     DeleteMetadata(object.resource, key),
                     [k \in DOMAIN object.set \ {key} |-> object.set[k]])

NextMetadata == SetMetadataCall \/ GetMetadataCall \/ DeleteMetadataCall

SpecMetadata == InitMetadata /\ [][NextMetadata]_vars

(***************************************************************************)
(* The password of a User through its hooks, called on the value as the    *)
(* tests call them.  object holds the user, the password that was          *)
(* submitted for it, whether a hook has run since, and the Password field  *)
(* as the first hook since left it.                                        *)
(***************************************************************************)
DrawnUsers ==
    [kind : {"", "User"}, apiVersion : {"v1"}, id : {0}, uid : {""},
     resourceVersion : {0, 1}, phase : {""}, username : {"alice"},
     email : {"a@example.com"}, password : Passwords, isActive : {FALSE}]

Hooked(u, submitted, hooked, first) ==
    [user |-> u, submitted |-> submitted, hooked |-> hooked, first |-> first]

InitPassword ==
    /\ rtype = "User"
    /\ api = "DAO"
    /\ store = EmptyDB.store
    /\ nextId = EmptyDB.nextId
    /\ nextUid = EmptyDB.nextUid
    /\ last = Idle
    /\ workers = NoWorkers
    /\ \E user \in DrawnUsers : object = Hooked(user, user.password, FALSE, "")

\* the hook op returned answer: the user is as the hook left it, whatever it returned
HookCall(op, answer) ==
    /\ last' = Last("User", op, 0, [password |-> object.submitted], 0, answer.err,
                    NoBody, FALSE)
    /\ object' = Hooked(answer.res, object.submitted, TRUE,
                        IF object.hooked THEN object.first ELSE answer.res.password)
    /\ UNCHANGED <<rtype, api, store, nextId, nextUid, workers>>

UserBeforeCreateCall == HookCall("BeforeCreate", UserBeforeCreate(object.user, nextUid))

UserBeforeUpdateCall ==
    /\ object.user.resourceVersion < MaxVersion
    /\ HookCall("BeforeUpdate", UserBeforeUpdate(object.user))

UserComparePasswordCall ==
    \E password \in Passwords :
        /\ last' = Last("User", "ComparePassword", 0, [password |-> password], 0,
                        UserComparePassword(object.user, password), NoBody, FALSE)
        /\ UNCHANGED <<rtype, api, store, nextId, nextUid, workers, object>>

\* a new password is submitted for the user
SubmitPassword ==
    \E password \in Passwords :
        /\ last' = Last("User", "submit", 0, [password |-> password], 0, Nil, NoBody, FALSE)
        /\ object' = Hooked([object.user EXCEPT !.password = password], password, FALSE, "")
        /\ UNCHANGED <<rtype, api, store, nextId, nextUid, workers>>

NextPassword ==
    \/ UserBeforeCreateCall
    \/ UserBeforeUpdateCall
    \/ UserComparePasswordCall
    \/ SubmitPassword

SpecPassword == InitPassword /\ [][NextPassword]_vars

(***************************************************************************)
(* The lifecycle of a user whose caller supplies a status: creates,        *)
(* updates and deletes through the DAO or either route set, with bodies    *)
(* that carry a status phase of the caller's choice.                       *)
(***************************************************************************)
\* the answer of the DAO method or of the handler registered for op on the api a; a
\* DAO answer is carried as a response without a status code
Serve(a, op, db, t, id, body) ==
    LET OfDAO(answer) == Response(0, answer.err, answer.db, answer.obj, op = "create")
    IN  CASE a = "DAO" /\ op = "create" -> OfDAO(DAOCreate(db, t, Decode(ZeroT, body)))
          [] a = "DAO" /\ op = "update" -> OfDAO(DAOUpdate(db, t, id, Decode(ZeroT, body)))
          [] a = "DAO" /\ op = "delete" -> OfDAO(DAODelete(db, t, id))
          [] a = "DAO" /\ op = "get" -> OfDAO(DAOGet(db, id))
          [] a = "Router" /\ op = "get" -> RouterGet(db, t, id)
          [] a = "Resource" /\ op = "get" -> ResourceGet(db, t, id)
          [] a = "Router" /\ op = "create" -> RouterCreate(db, t, body)
          [] a = "Router" /\ op = "update" -> RouterUpdate(db, t, id, body)
          [] a = "Router" /\ op = "delete" -> RouterDelete(db, t, id)
          [] a = "Resource" /\ op = "create" -> ResourcePost(db, t, body)
          [] a = "Resource" /\ op = "update" -> ResourcePut(db, t, id, body)
          [] a = "Resource" /\ op = "delete" -> ResourceDelete(db, t, id)

\* well-formed bodies without a status and with the phase "Deleted", and the bodies a
\* client builds from a response
StatusBodies(t, st) ==
    {m @@ d : m \in {EmptyBody, [phase |-> "Deleted"]}, d \in ValidDomainParts(t)}
        \cup EchoBodies(t, st)

InitStatus ==
    /\ rtype = "User"
    /\ api \in Apis
    /\ store = EmptyDB.store
    /\ nextId = EmptyDB.nextId
    /\ nextUid = EmptyDB.nextUid
    /\ last = Idle
    /\ workers = NoWorkers
    /\ object = NoObject

CreateWithStatus ==
    /\ last.op = "none"
    /\ \E body \in StatusBodies(rtype, store) :
           \E response \in {Serve(api, "create", DB, rtype, 0, body)} :
               Commit(response.db, OfRequest(api, "create", 0, body, response))

UpdateWithStatus ==
    /\ last.op = "none"
    /\ \E id \in PathIds, body \in StatusBodies(rtype, store) :
           \E response \in {Serve(api, "update", DB, rtype, id, body)} :
               Commit(response.db, OfRequest(api, "update", id, body, response))

DeleteWithStatus ==
    /\ last.op = "none"
    /\ \E id \in PathIds :
           \E response \in {Serve(api, "delete", DB, rtype, id, EmptyBody)} :
               Commit(response.db, OfRequest(api, "delete", id, EmptyBody, response))

NextStatus ==
    \/ CreateWithStatus
    \/ UpdateWithStatus
    \/ DeleteWithStatus
    \/ Return

SpecStatus == InitStatus /\ [][NextStatus]_vars

(***************************************************************************)
(* BaseResource.BeforeUpdate and BaseResource.BeforeDelete on their own,   *)
(* called on a BaseResource with all its fields: object holds the value    *)
(* with its labels, annotations and the four fields of its status.         *)
(***************************************************************************)
DrawnBaseResources ==
    [kind : {"", "Resource"}, apiVersion : {"v1"}, id : {0, 1}, uid : {"", "uuid-1"},
     resourceVersion : {0, 1},
     labels : {NilMap, MakeMap([k \in {"tier"} |-> "test"])},
     annotations : {NilMap, MakeMap([k \in {"key1"} |-> "value1"])},
     phase : {"", "Pending"}, message : {"", "Resource is being created"},
     reason : {""}, lastTransitionTime : {0, 1}]

InitBaseHooks ==
    /\ rtype = "Resource"
    /\ api = "DAO"
    /\ store = EmptyDB.store
    /\ nextId = EmptyDB.nextId
    /\ nextUid = EmptyDB.nextUid
    /\ last = Idle
    /\ workers = NoWorkers
    /\ \E resource \in DrawnBaseResources : object = [resource |-> resource]

BaseBeforeUpdateCall ==
    /\ object.resource.resourceVersion < MaxVersion
    /\ LET answer == BaseResourceBeforeUpdate(object.resource)
       IN  /\ last' = Last("BaseResource", "BeforeUpdate", 0, EmptyBody, 0, answer.err,
                           NoBody, FALSE)
           /\ object' = [resource |-> answer.res]
    /\ UNCHANGED <<rtype, api, store, nextId, nextUid, workers>>

BaseBeforeDeleteCall ==
    /\ LET answer == BaseResourceBeforeDelete(object.resource)
       IN  /\ last' = Last("BaseResource", "BeforeDelete", 0, EmptyBody, 0, answer.err,
                           NoBody, FALSE)
           /\ object' = [resource |-> answer.res]
    /\ UNCHANGED <<rtype, api, store, nextId, nextUid, workers>>

NextBaseHooks == BaseBeforeUpdateCall \/ BaseBeforeDeleteCall

SpecBaseHooks == InitBaseHooks /\ [][NextBaseHooks]_vars

\* the last call or request was a create of a resource that passes Validate, and succeeded
ValidCreateSucceeded ==
    /\ last.op = "create"
    /\ last.err = Nil
    /\ Validate(rtype, Submitted) = Nil

DomainFields == {"username", "email", "password", "isActive"}

UpdateFails ==
    /\ last.op = "none"
    /\ last'.op = "update"
    /\ last'.err # Nil

\* C3: an update that fails (hook validation, store error, or no such row) leaves every
\* persisted row, the addressed one and its resourceVersion included, as it was
C3_FailedUpdateWritesNothing ==
    [][UpdateFails => store' = store]_vars

\* C3 witness: an update of an existing row was refused by the beforeUpdate hook's
\* validation
C3_Witness ==
    /\ last.op = "update"
    /\ last.err \in ValidationErrors
    /\ last.id \in DOMAIN store

\* C4: Get, Update and Delete of the DAO on an id without a row fail with the not-found
\* error, whatever resource is passed to Update, and leave the store as it was
C4_MissingIdIsNotFound ==
    [][(/\ last.op = "none"
        /\ last'.route = "DAO"
        /\ last'.op \in {"get", "update", "delete"}
        /\ last'.id \notin DOMAIN store)
          => (last'.err = ErrRecordNotFound /\ store' = store)]_vars

\* C5: on both route sets a GET, a PUT with a body that binds, or a DELETE on an id
\* without a row is answered 404 and writes nothing
C5_MissingIdIs404 ==
    [][(/\ last.op = "none"
        /\ last'.route \in {"Router", "Resource"}
        /\ last'.op \in {"get", "update", "delete"}
        /\ last'.id \notin DOMAIN store
        /\ last'.err # ErrBinding)
          => (last'.code = StatusNotFound /\ store' = store)]_vars

\* the resource of a POST fails the Validate of its type once the hook defaults are set
FailsValidation(t, r) == Validate(t, BeforeCreate(t, r, 0).res) # Nil

\* C6: a POST or PUT that ends in a validation failure, found by the Validator check or
\* by the beforeCreate/beforeUpdate hook, and a POST of a resource that fails the Validate
\* of its type, are answered 400 and write nothing
C6_ValidationFailureIs400 ==
    [][(/\ last.op = "none"
        /\ last'.route \in {"Router", "Resource"}
        /\ last'.op \in {"create", "update"}
        /\ \/ last'.err \in ValidationErrors
           \/ last'.op = "create" /\ FailsValidation(rtype, Decode(ZeroT, last'.req)))
          => (last'.code = StatusBadRequest /\ store' = store)]_vars

\* kind or apiVersion is empty after the hook defaults of the type, or a required domain
\* field of a user is missing
LacksRequiredField(t, r) ==
    \/ BeforeCreate(t, r, 0).res.kind = ""
    \/ BeforeCreate(t, r, 0).res.apiVersion = ""
    \/ t = "User" /\ (r.username = "" \/ r.email = "" \/ r.password = "")

\* C7: creating a resource that lacks a contract-required or domain-required field
\* fails with a validation error and leaves the number of rows as it was
C7_CreateWithoutRequiredFieldFails ==
    [][(/\ last.op = "none"
        /\ last'.op = "create"
        /\ LacksRequiredField(rtype, Decode(ZeroT, last'.req)))
          => (/\ last'.err \in ValidationErrors \cup {ErrBinding}
              /\ Cardinality(DOMAIN store') = Cardinality(DOMAIN store))]_vars

\* C8: on both route sets a POST of a user that carries only a well-formed username,
\* email and password, none of them taken, is answered 201 with a non-empty id and uid,
\* resourceVersion 1 and phase "Active", and the row is persisted
C8_PlainUserPostIs201 ==
    [][(/\ last.op = "none"
        /\ last'.op = "create"
        /\ last'.route \in {"Router", "Resource"}
        /\ rtype = "User"
        /\ DOMAIN last'.req = {"username", "email", "password"}
        /\ BindingError(rtype, Decode(ZeroT, last'.req)) = Nil
        /\ UsernameLen(last'.req.username) >= 3
        /\ ~UniqueViolation(rtype, store, Decode(ZeroT, last'.req), 0))
          => (/\ last'.code = StatusCreated
              /\ last'.resp.id # 0
              /\ "uid" \in DOMAIN last'.resp
              /\ last'.resp.resourceVersion = 1
              /\ last'.resp.phase = "Active"
              /\ last'.resp.id \in DOMAIN store')]_vars

\* C9: a POST of a user whose body lacks the username or the password is answered 400
\* with an error, never reaches the create of the data-access layer, and leaves the
\* rows a list returns as they were
C9_PostWithoutRequiredFieldIs400 ==
    [][(/\ last.op = "none"
        /\ last'.op = "create"
        /\ last'.route \in {"Router", "Resource"}
        /\ rtype = "User"
        /\ (Decode(ZeroT, last'.req).username = "" \/ Decode(ZeroT, last'.req).password = ""))
          => (/\ last'.code = StatusBadRequest
              /\ last'.err # Nil
              /\ ~last'.createCalled
              /\ RowsFrom(store', 1) = RowsFrom(store, 1))]_vars

\* C9 witness: with a row in the table, a POST without username was answered 400 on
\* the RegisterResource routes
C9_Witness ==
    /\ last.op = "create"
    /\ last.route = "Resource"
    /\ rtype = "User"
    /\ Submitted.username = ""
    /\ last.code = StatusBadRequest
    /\ DOMAIN store # {}

\* C10: over a table of N rows and a page size s, the pages 1..ceil(N/s) of DAO.List
\* hold at most s rows each, page p holding the rows from offset (p-1)*s on in id order,
\* they are pairwise disjoint and together hold exactly the N rows, every later page is
\* empty, and every page reports total N
C10_ListPaginates ==
    last.op = "list" =>
        LET size == last.req.pageSize
            N == Cardinality(DOMAIN store)
            pages == (N + size - 1) \div size
            rows == RowsFrom(store, 1)
            Page(p) == DAOList(DB, p, size)
            Ids(p) == {Page(p).resources[k].id : k \in 1 .. Len(Page(p).resources)}
        IN  /\ last.resp = Page(last.req.page)
            /\ \A p \in 1 .. MaxPage : Page(p).total = N
            /\ \A p \in 1 .. pages :
                   /\ Len(Page(p).resources) <= size
                   /\ Cardinality(Ids(p)) = Len(Page(p).resources)
                   /\ \A k \in 1 .. Len(Page(p).resources) :
                          Page(p).resources[k] = rows[(p - 1) * size + k]
            /\ \A p, q \in 1 .. pages : p # q => Ids(p) \cap Ids(q) = {}
            /\ UNION {Ids(p) : p \in 1 .. pages} = DOMAIN store
            /\ \A p \in (pages + 1) .. MaxPage : Page(p).resources = <<>>

\* C10 witness: the second and last page of three rows listed two to a page holds one row
C10_Witness ==
    /\ last.op = "list"
    /\ Cardinality(DOMAIN store) = 3
    /\ last.req = [page |-> 2, pageSize |-> 2]
    /\ Len(last.resp.resources) = 1
    /\ last.resp.total = 3

\* the items of a list response: the body itself on the Router.Register routes
ListedItems == IF last.route = "Router" THEN last.resp ELSE last.resp.items

\* C11: a GET of the collection path whose query names columns beside page and size is
\* answered with exactly the rows of the requested page among those whose columns equal
\* the given values, and on the routes that report a total, with the number of rows
\* that match
C11_QueryParametersFilter ==
    (last.op = "list" /\ last.route \in {"Router", "Resource"}
       /\ DOMAIN QueryFilters(last.req) \subseteq Columns) =>
        LET matching == Where(RowsFrom(store, 1), QueryFilters(last.req))
            offset == (QueryPage(last.req) - 1) * QuerySize(last.req)
        IN  /\ last.code = StatusOK
            /\ ListedItems = ItemsJSON(OffsetLimit(matching, offset, QuerySize(last.req)))
            /\ last.route = "Resource" => last.resp.total = Len(matching)

\* C12: on the /:id routes a path segment that is no string of digits is answered 400
\* and nothing is written, and a segment that is a non-negative integer is never refused
\* as an id
C12_OnlyNonIntegersAreInvalidIds ==
    [][(last.op = "none" /\ "seg" \in DOMAIN last') =>
          IF IsDigits(last'.seg)
          THEN last'.err # ErrInvalidId
          ELSE last'.code = StatusBadRequest /\ store' = store]_vars

\* this step answers a call or request
Answers == last.op = "none" /\ last'.op # "none"

GetAnswered(w) == workers[w].pc = "idle" /\ workers'[w].op = "get"

\* C14: a GET served while other requests are in progress changes nothing in the
\* database, and when its id has a row that no request in progress or answered
\* updates, it is answered 200 with that row, as is every other GET of that id
C14_ConcurrentGetsAgree ==
    [][\A w \in Workers : GetAnswered(w) =>
         /\ store' = store /\ nextId' = nextId /\ nextUid' = nextUid
         /\ LET id == workers'[w].id
            IN  (/\ id \in DOMAIN store
                 /\ \A v \in Workers : ~(workers'[v].op = "update" /\ workers'[v].id = id))
                  => \A v \in Workers :
                        (workers'[v].op = "get" /\ workers'[v].id = id) =>
                           /\ workers'[v].code = StatusOK
                           /\ workers'[v].resp = workers'[w].resp
                           /\ workers'[v].resp = ToJSON(store[id])]_vars

\* C14 witness: every worker was answered a GET of row 2 with 200
C14_Witness ==
    /\ workers # NoWorkers
    /\ 2 \in DOMAIN store
    /\ \A w \in DOMAIN workers :
          workers[w].pc = "done" /\ workers[w].op = "get" /\ workers[w].id = 2
                                 /\ workers[w].code = StatusOK

\* the workers whose PUT of id was answered 200
Updaters(id) ==
    {w \in DOMAIN workers : /\ workers[w].pc = "done"
                            /\ workers[w].op = "update"
                            /\ workers[w].id = id
                            /\ workers[w].code = StatusOK}

\* the resourceVersion the PUT of worker w started from: the one its body carries, or on
\* the RegisterResource routes the one it loaded, or none
OwnVersion(w) ==
    IF "resourceVersion" \in DOMAIN workers[w].body THEN workers[w].body.resourceVersion
    ELSE IF api = "Resource" THEN workers[w].obj.resourceVersion
    ELSE 0

\* C15: when two or more concurrent PUTs of one id were answered 200, the row holds what
\* the last of them wrote (the whole resource it answered with on the RegisterResource
\* routes, its non-zero fields on the Router.Register routes) and its resourceVersion is
\* one more than the version that request read or carried itself
C15_LastWriterWins ==
    \A id \in ConcurrentIds :
        Cardinality(Updaters(id)) >= 2 =>
            LET lw == CHOOSE w \in Updaters(id) :
                          \A v \in Updaters(id) : workers[v].turn <= workers[w].turn
                value == Decode(ZeroT, workers[lw].resp)
            IN  /\ id \in DOMAIN store
                /\ api = "Resource" => store[id] = value
                /\ api = "Router" =>
                      \A c \in Columns \ {"id"} :
                          ~IsZero(value, c) => store[id][c] = value[c]
                /\ store[id].resourceVersion = OwnVersion(lw) + 1

\* C15 witness (the lost update): two PUTs without a resourceVersion of their own both
\* loaded the row at the same version and were both answered 200, and the row is one
\* version further, not two
C15_Witness ==
    /\ api = "Resource"
    /\ Updaters(1) = {1, 2}
    /\ \A w \in {1, 2} : "resourceVersion" \notin DOMAIN workers[w].body
    /\ workers[1].obj.resourceVersion = workers[2].obj.resourceVersion
    /\ store[1].resourceVersion = workers[1].obj.resourceVersion + 1
    /\ workers[1].body.username # workers[2].body.username

\* C16: when fc returns an error, DAO.Transaction(fc) returns that error and the table
\* is as before the call; when fc returns nil, the table is as the statements of fc
\* left it
C16_TransactionIsAtomic ==
    [][(last.op = "none" /\ last'.op = "transaction") =>
          LET ran == RunFn(DB, rtype, last'.req, 1)
          IN  /\ last'.err = ran.err
              /\ IF ran.err # Nil
                 THEN store' = store /\ nextId' = nextId
                 ELSE store' = ran.db.store]_vars

\* C16 witness: fc created a row in an empty table and then returned its own error, and
\* the table is empty
C16_Witness ==
    /\ last.op = "transaction"
    /\ last.err = ErrFn
    /\ last.req.stmts[1].op = "create"
    /\ DOMAIN store = {}

\* C17: no update changes the uid of a persisted row, whatever uid the request carries
\* or omits
C17_UidIsImmutable ==
    [][\A i \in DOMAIN store :
          (last.op = "none" /\ last'.op = "update" /\ i \in DOMAIN store')
             => store'[i].uid = store[i].uid]_vars

\* C18: BaseResource.BeforeCreate assigns a uid only to a resource without one, sets
\* resourceVersion 1 only where it is 0 and phase "Pending" only where the phase is
\* empty, leaves every other field and every value the caller set as it is, and returns
\* the error of Validate, in which case nothing is persisted
C18_BeforeCreateFillsTheUnset ==
    (last.op = "create" /\ last.req \in DrawnResources) =>
        LET b == last.req
            r == last.resp
        IN  /\ r.uid = IF b.uid = "" THEN r.uid ELSE b.uid
            /\ r.uid # ""
            /\ r.resourceVersion = IF b.resourceVersion = 0 THEN 1 ELSE b.resourceVersion
            /\ r.phase = IF b.phase = "" THEN "Pending" ELSE b.phase
            /\ \A c \in Columns \ {"id", "uid", "resourceVersion", "phase"} : r[c] = b[c]
            /\ last.err = IF b.kind = "" THEN ErrKindRequired
                          ELSE IF b.apiVersion = "" THEN ErrAPIVersionRequired
                          ELSE Nil
            /\ IF last.err # Nil THEN DOMAIN store = {}
               ELSE DOMAIN store = {r.id} /\ store[r.id] = r

\* C18 witness: a resource created with a uid, a resourceVersion and a phase of the
\* caller's keeps all three
C18_Witness ==
    /\ last.op = "create"
    /\ last.req \in DrawnResources
    /\ last.req.uid = "client-uid"
    /\ last.req.resourceVersion = 2
    /\ last.req.phase = "Active"
    /\ last.err = Nil
    /\ last.resp.id \in DOMAIN store

\* C19: GetMetadata(k) returns (v, true) when k was set to v last and not deleted
\* since, and ("", false) otherwise; GetMetadata changes nothing; GetMetadata and
\* DeleteMetadata leave uninitialised annotations uninitialised, only SetMetadata
\* initialises them; and no accessor touches the labels
C19_MetadataAccessors ==
    [][(last'.route = "BaseResource") =>
          LET b == object.resource
              after == object'.resource
              key == last'.req.key
          IN  /\ after.labels = b.labels
              /\ last'.op = "GetMetadata" =>
                    /\ after = b
                    /\ last'.resp = IF key \in DOMAIN object.set
                                    THEN [value |-> object.set[key], found |-> TRUE]
                                    ELSE [value |-> "", found |-> FALSE]
              /\ (last'.op # "SetMetadata" /\ ~b.annotations.initialised) =>
                    ~after.annotations.initialised
              /\ last'.op = "SetMetadata" => after.annotations.initialised]_vars

\* C19 witness: a key that was set and then deleted is not found, while the other key
\* is still set
C19_Witness ==
    /\ last.op = "GetMetadata"
    /\ ~last.resp.found
    /\ object.resource.annotations.initialised
    /\ last.req.key \notin DOMAIN object.set
    /\ DOMAIN object.set # {}

\* C20: once BeforeCreate or BeforeUpdate has run on a user for whom the password p was
\* submitted, the Password field differs from p, ComparePassword succeeds for p and fails
\* for every other password, and further runs of the hooks leave the field as the
\* first run left it
C20_HooksHashEveryPassword ==
    (object # NoObject /\ object.hooked) =>
        /\ object.user.password # object.submitted
        /\ UserComparePassword(object.user, object.submitted) = Nil
        /\ \A q \in Passwords \ {object.submitted} : UserComparePassword(object.user, q) # Nil
        /\ object.user.password = object.first

\* the row (or the JSON of it) holds value in field c: the value itself, or for the
\* password of a user a hash the value verifies against
HoldsSupplied(t, r, c, value) ==
    /\ c \in DOMAIN r
    /\ \/ r[c] = value
       \/ t = "User" /\ c = "password" /\ CompareHashAndPassword(r[c], value)

\* C21: after a PUT on an existing id that is answered 200, the persisted row holds the
\* supplied value for every domain field of the request body, zero values such as false
\* included (a password may be held as its hash), and a GET of the id that follows
\* returns those values
C21_PutPersistsEverySuppliedField ==
    [][(/\ last.op = "none"
        /\ last'.route \in {"Router", "Resource"}
        /\ last'.op = "update"
        /\ last'.id \in DOMAIN store
        /\ last'.code = StatusOK)
          => /\ last'.id \in DOMAIN store'
             /\ LET got == RouterGet([store |-> store', nextId |-> nextId',
                                      nextUid |-> nextUid'], rtype, last'.id)
                IN  /\ got.code = StatusOK
                    /\ \A c \in DOMAIN last'.req \cap DomainFields :
                          /\ HoldsSupplied(rtype, store'[last'.id], c, last'.req[c])
                          /\ HoldsSupplied(rtype, got.body, c, last'.req[c])]_vars

\* C22: the rows of a successful create of a user have phase "Active" whatever phase
\* the caller supplied, after a successful update every row still has phase "Active",
\* a delete stamps phase "Deleted" on the value handed to it and, when it succeeds,
\* the row is gone, and no other step changes the phase of a row
C22_UserStatusFollowsLifecycle ==
    [][Answers =>
         /\ (last'.op = "create" /\ last'.err = Nil) =>
               /\ DOMAIN store' # DOMAIN store
               /\ \A i \in DOMAIN store' \ DOMAIN store : store'[i].phase = "Active"
         /\ (last'.op = "update" /\ last'.err = Nil) =>
               \A i \in DOMAIN store' : store'[i].phase = "Active"
         /\ last'.op = "delete" =>
               /\ gormDelete(DB, rtype, ZeroT, last'.id).obj.phase = "Deleted"
               /\ last'.err = Nil => last'.id \notin DOMAIN store'
         /\ \A i \in DOMAIN store \cap DOMAIN store' :
               store'[i].phase # store[i].phase => last'.op \in {"create", "update"}]_vars

\* C22 witness: an update whose caller supplied the phase "Deleted" succeeded, and the
\* row it wrote has phase "Active"
C22_Witness ==
    /\ last.op = "update"
    /\ last.err = Nil
    /\ "phase" \in DOMAIN last.req
    /\ last.req.phase = "Deleted"
    /\ last.id \in DOMAIN store
    /\ store[last.id].phase = "Active"
    /\ store[last.id].resourceVersion >= 2

\* C23: BaseResource.BeforeUpdate adds one to resourceVersion and leaves every other
\* field (uid, id, kind, apiVersion, labels, annotations, the four status fields) as
\* it was, so a phase "Pending" stays "Pending"; BaseResource.BeforeDelete changes
\* nothing and returns no error
C23_BaseHooksFrame ==
    [][/\ last'.op = "BeforeUpdate" =>
            /\ object'.resource.resourceVersion = object.resource.resourceVersion + 1
            /\ \A c \in DOMAIN object.resource \ {"resourceVersion"} :
                   object'.resource[c] = object.resource[c]
       /\ last'.op = "BeforeDelete" =>
            /\ object'.resource = object.resource
            /\ last'.err = Nil]_vars

\* C23 witness: a resource created with phase "Pending" has been through BeforeUpdate
\* and then BeforeDelete, and is at resourceVersion 2 with phase "Pending"
C23_Witness ==
    /\ last.op = "BeforeDelete"
    /\ object.resource.phase = "Pending"
    /\ object.resource.message = "Resource is being created"
    /\ object.resource.uid # ""
    /\ object.resource.resourceVersion = 2
    /\ object.resource.labels.initialised

\* C24: when an update fails validation, the resource value the caller of DAO.Update
\* holds has the resourceVersion it had before the call, the response of a route
\* carries no resource, and no stored row changes
C24_FailedUpdateShowsNoIncrement ==
    [][(UpdateFails /\ last'.err \in ValidationErrors) =>
          /\ store' = store
          /\ IF last'.route = "DAO"
             THEN last'.resp.resourceVersion = last'.req.resourceVersion
             ELSE last'.resp = NoBody]_vars

\* C25: a PUT on /:id with the path id X leaves every row with another id as it was,
\* creates no row with another id, and leaves the row X, if there is one, with the id X,
\* whatever the body carries
C25_PutTouchesOnlyItsRow ==
    [][(/\ last.op = "none"
        /\ last'.route \in {"Router", "Resource"}
        /\ last'.op = "update")
          => /\ DOMAIN store' \ {last'.id} = DOMAIN store \ {last'.id}
             /\ \A i \in DOMAIN store \ {last'.id} : store'[i] = store[i]
             /\ last'.id \in DOMAIN store =>
                   (last'.id \in DOMAIN store' /\ store'[last'.id].id = last'.id)]_vars

\* C26: from the same store content, the handler of Router.Register and the handler of
\* RegisterResource for the same POST, GET, PUT or DELETE request answer with the same
\* status code and leave the same store content
C26_RouteSetsAreEquivalent ==
    [][(/\ last.op = "none"
        /\ last'.route \in {"Router", "Resource"}
        /\ last'.op \in {"create", "get", "update", "delete"})
          => LET router == Serve("Router", last'.op, DB, rtype, last'.id, last'.req)
                 resource == Serve("Resource", last'.op, DB, rtype, last'.id, last'.req)
             IN  /\ router.code = resource.code
                 /\ router.db.store = resource.db.store]_vars

\* a DELETE of id has been answered 204
DeleteAnswered(id) ==
    \E v \in Workers : /\ workers[v].pc = "done"
                       /\ workers[v].op = "delete"
                       /\ workers[v].id = id
                       /\ workers[v].code = StatusNoContent

\* C27: once a DELETE of id X has succeeded, a step of a PUT of X, also of one that had
\* loaded the row before the delete, writes nothing, so X has no row again
C27_PutAfterDeleteWritesNothing ==
    [][\A w \in Workers :
          (/\ workers'[w] # workers[w]
           /\ workers'[w].op = "update"
           /\ DeleteAnswered(workers'[w].id))
             => (store' = store /\ workers'[w].id \notin DOMAIN store')]_vars

\* C28: every row of the store has a non-empty uid, a resourceVersion of at least 1, a
\* non-empty kind and apiVersion, and no two rows share a uid
C28_RowsAreWellFormed ==
    /\ \A i \in DOMAIN store :
          /\ store[i].uid # ""
          /\ store[i].resourceVersion >= 1
          /\ store[i].kind # ""
          /\ store[i].apiVersion # ""
    /\ \A i, j \in DOMAIN store : i # j => store[i].uid # store[j].uid

====
